---- MODULE Spec2Model ----
(***************************************************************************)
(* A model of benford-law (src/src/benford.ts): the leading-digit          *)
(* extractor getFirstDigit, the sample generator                           *)
(* generateBenfordLawNumbers and the analyzer processBenfordLaw.           *)
(*                                                                         *)
(* Numbers.  A JavaScript number is modelled by its kind and, when it is   *)
(* finite and nonzero, by the digits of its shortest decimal               *)
(* representation (what Number.prototype.toString prints) and its decimal  *)
(* exponent: [kind |-> "pos", digs |-> <<1, 5>>, exp |-> 1] is 15.         *)
(* Probabilities are exact rationals [num, den]; the reference table is    *)
(* in thousandths.  Objects live in a heap, so that which object a write   *)
(* goes to, and which objects a report is made of, is part of the state.   *)
(***************************************************************************)
EXTENDS Integers, Sequences, FiniteSets, TLC

VARIABLES numbers, heap, call

vars == <<numbers, heap, call>>

-----------------------------------------------------------------------------
(* Bounds of the model *)

\* longest array the caller builds element by element
MaxLen == 2

\* longest sequence asked of generateBenfordLawNumbers
MaxGenLen == 2

\* Math.random() returns one of the points r / RandomGrid, r in 0..RandomGrid-1
RandomGrid == 6

-----------------------------------------------------------------------------
(* JavaScript numbers *)

Num(k, d, e) == [kind |-> k, digs |-> d, exp |-> e]

NaN == Num("nan", <<>>, 0)
PosInfinity == Num("posinf", <<>>, 0)
NegInfinity == Num("neginf", <<>>, 0)
Zero == Num("zero", <<>>, 0)

Pos(d, e) == Num("pos", d, e)
Neg(d, e) == Num("neg", d, e)

\* Number.isFinite
IsFinite(x) == x.kind \in {"zero", "pos", "neg"}

\* x <= 0 (false for NaN)
LeqZero(x) == x.kind \in {"zero", "neg", "neginf"}

\* x >= 1, for a positive finite x
GeqOne(x) == x.kind = "posinf" \/ (x.kind = "pos" /\ x.exp >= 0)

\* Math.abs
Abs(x) ==
  CASE x.kind = "neg" -> Pos(x.digs, x.exp)
    [] x.kind = "neginf" -> PosInfinity
    [] OTHER -> x

AllNines(d) == \A i \in 1..Len(d) : d[i] = 9

AbsInt(n) == IF n < 0 THEN -n ELSE n

\* Math.log10 returns the binary64 number nearest to the logarithm.  For
\* x = 9.99...9 * 10^e just below the power of ten 10^(e+1) the logarithm is
\* (e+1) - 0.434 * 10^-n, n the number of nines, and it rounds to the integer
\* e+1 when that distance is below half the spacing of binary64 numbers at
\* |e+1| (2^-53 in [1,2), 2^-51 in [4,8), 2^-47 in [64,128)); next to 0 the
\* spacing is fine enough that it never does.
Log10RoundsToNextInteger(x) ==
  LET n == x.exp + 1
      m == AbsInt(n)
      nines == Len(x.digs)
  IN  /\ AllNines(x.digs)
      /\ \/ nines >= 16 /\ m >= 1
         \/ nines = 15 /\ m >= 4
         \/ nines = 14 /\ m >= 64

\* Math.ceil(-Math.log10(x)) for a positive finite x = d.ddd * 10^e:
\* -log10(x) lies in (-e-1, -e], so its ceiling is -e, unless the logarithm
\* was rounded to e+1.
CeilNegLog10(x) ==
  IF Log10RoundsToNextInteger(x) THEN -(x.exp + 1) ELSE -x.exp

\* the largest k for which 10^k is a finite binary64 number
MaxPow10 == 308

\* Math.pow(10, k)
Pow10(k) == IF k > MaxPow10 THEN PosInfinity ELSE Pos(<<1>>, k)

\* x * p for a positive finite x and p a power of ten or Infinity
Times(x, p) ==
  IF p.kind = "posinf" THEN PosInfinity ELSE Pos(x.digs, x.exp + p.exp)

\* Number.prototype.toString(...)[0]: the first character of the decimal
\* string.  Fixed notation is used for 1e-7 <= x < 1e21 and starts with "0"
\* below 1; exponent notation starts with the first digit.
DigitChar == <<"1", "2", "3", "4", "5", "6", "7", "8", "9">>

FirstChar(x) ==
  CASE x.kind = "nan" -> "N"
    [] x.kind = "posinf" -> "I"
    [] x.kind = "neginf" -> "-"
    [] x.kind = "neg" -> "-"
    [] x.kind = "zero" -> "0"
    [] x.kind = "pos" ->
         IF x.exp < 0 /\ x.exp >= -7 THEN "0" ELSE DigitChar[x.digs[1]]

\* A number that is an integer or NaN (the result of parseInt)
IntNum(n) == [nan |-> FALSE, v |-> n]
NaNInt == [nan |-> TRUE, v |-> 0]

\* parseInt(c, 10) of one character
ParseInt(c) ==
  IF c = "0" THEN IntNum(0)
  ELSE IF \E d \in 1..9 : DigitChar[d] = c
       THEN IntNum(CHOOSE d \in 1..9 : DigitChar[d] = c)
       ELSE NaNInt

\* a < n and a > n for a an integer or NaN: false for NaN
LessThan(a, n) == ~a.nan /\ a.v < n
GreaterThan(a, n) == ~a.nan /\ a.v > n

\* String(digit)
String(a) ==
  IF a.nan THEN "NaN" ELSE IF a.v = 0 THEN "0" ELSE DigitChar[a.v]

-----------------------------------------------------------------------------
(* getFirstDigit *)

Return(v) == [kind |-> "return", value |-> v]
Throw(msg) == [kind |-> "throw", error |-> msg]

\* line 44
Normalized(absNumber) ==
  IF GeqOne(absNumber)
  THEN absNumber
  ELSE Times(absNumber, Pow10(CeilNegLog10(absNumber)))

\* lines 47-51: the range check of the extracted digit
CheckedDigit(firstDigit) ==
  IF LessThan(firstDigit, 1) \/ GreaterThan(firstDigit, 9)
  THEN Throw("Invalid first digit extracted")
  ELSE Return(firstDigit)

getFirstDigit(number) ==
  IF ~IsFinite(number) THEN Throw("Number must be finite")
  ELSE IF LeqZero(number) THEN Throw("Number must be positive and non-zero")
  ELSE CheckedDigit(ParseInt(FirstChar(Normalized(Abs(number)))))

-----------------------------------------------------------------------------
(* Rationals, mappings (Record<string, number>) and the heap *)

Rat(n, d) == [num |-> n, den |-> d]

RatAbsDiff(a, b) ==
  Rat(AbsInt(a.num * b.den - b.num * a.den), a.den * b.den)

RatLess(a, b) == a.num * b.den < b.num * a.den

Thousandths(n) == Rat(n, 1000)

EmptyMap == [k \in {} |-> Rat(0, 1)]

Put(m, k, v) == [x \in (DOMAIN m) \cup {k} |-> IF x = k THEN v ELSE m[x]]

\* lines 5-15
benfordProb ==
  [k \in {"1", "2", "3", "4", "5", "6", "7", "8", "9"} |->
     CASE k = "1" -> Thousandths(301)
       [] k = "2" -> Thousandths(176)
       [] k = "3" -> Thousandths(125)
       [] k = "4" -> Thousandths(97)
       [] k = "5" -> Thousandths(79)
       [] k = "6" -> Thousandths(67)
       [] k = "7" -> Thousandths(58)
       [] k = "8" -> Thousandths(51)
       [] k = "9" -> Thousandths(46)]

\* The objects of the heap: the module-level table, the reference object the
\* caller passes, and the three objects the latest call created.
ObjIds ==
  {"benfordProb", "callerReference",
   "firstDigitCounts", "firstDigitProbabilities", "firstDigitAccuracies"}

ReportObjIds ==
  {"firstDigitCounts", "firstDigitProbabilities", "firstDigitAccuracies"}

InitialHeap ==
  [o \in ObjIds |-> IF o = "benfordProb" THEN benfordProb ELSE EmptyMap]

\* the heap h with the content of object o replaced by m
Store(h, o, m) == [x \in ObjIds |-> IF x = o THEN m ELSE h[x]]

-----------------------------------------------------------------------------
(* processBenfordLaw *)

Undefined == [kind |-> "undefined"]
ThresholdNaN == [kind |-> "nan"]
ThresholdNum(r) == [kind |-> "num", val |-> r]

\* line 87: threshold = 0.01
DefaultThreshold == ThresholdNum(Rat(1, 100))

ThresholdParam(arg) == IF arg.kind = "undefined" THEN DefaultThreshold ELSE arg

\* line 88: benfordProbabilities = benfordProb
ReferenceParam(arg) ==
  IF arg.kind = "undefined" THEN "benfordProb" ELSE "callerReference"

\* line 100: threshold <= 0 || threshold >= 1 (both false for NaN)
ThresholdOutOfRange(t) ==
  /\ t.kind = "num"
  /\ \/ t.val.num <= 0
     \/ t.val.num >= t.val.den

\* line 105: numbers.map(getFirstDigit), the outcome of every element
FirstDigits(nums) == [i \in 1..Len(nums) |-> getFirstDigit(nums[i])]

\* the first element whose extraction throws (0 when none does)
FirstThrow(outcomes) ==
  IF \E i \in 1..Len(outcomes) : outcomes[i].kind = "throw"
  THEN CHOOSE i \in 1..Len(outcomes) :
         /\ outcomes[i].kind = "throw"
         /\ \A j \in 1..(i - 1) : outcomes[j].kind = "return"
  ELSE 0

\* lines 109-113: the loop leaves, for every key String(digit) met, the number
\* of elements of firstDigits with that key
CountDigits(firstDigits) ==
  LET key(i) == String(firstDigits[i].value)
      indices == 1..Len(firstDigits)
  IN  [k \in {key(i) : i \in indices} |->
         Rat(Cardinality({i \in indices : key(i) = k}), 1)]

\* lines 116-120
Probabilities(counts, totalCount) ==
  [digit \in DOMAIN counts |-> Rat(counts[digit].num, totalCount)]

\* a variant that gives every key of the reference an entry, with 0 for the
\* probability of a key that was not observed
AccuraciesOfReference(probabilities, reference) ==
  [digit \in DOMAIN reference |->
     RatAbsDiff(reference[digit],
                IF digit \in DOMAIN probabilities THEN probabilities[digit]
                                                  ELSE Rat(0, 1))]

\* lines 123-129: the entries written to firstDigitAccuracies
AccuracyKeys(probabilities, reference) ==
  (DOMAIN probabilities) \cap (DOMAIN reference)

Accuracies(probabilities, reference) ==
  [digit \in AccuracyKeys(probabilities, reference) |->
     RatAbsDiff(reference[digit], probabilities[digit])]

\* a variant that writes the accuracy entries to the reference object
AccuraciesObjectOfReference(referenceObject) == referenceObject

\* line 123 and line 127: the object the accuracy entries are written to
AccuraciesObject(referenceObject) == "firstDigitAccuracies"

\* a variant that accepts a deviation equal to the threshold
DigitConformsNonStrict(digit, probability, probabilities, t) ==
  LET actualProbability ==
        IF digit \in DOMAIN probabilities /\ probabilities[digit].num # 0
        THEN probabilities[digit]
        ELSE Rat(0, 1)
  IN  /\ t.kind = "num"
      /\ ~RatLess(t.val, RatAbsDiff(actualProbability, probability))

\* lines 134-137, for one entry of the reference
DigitConforms(digit, probability, probabilities, t) ==
  LET actualProbability ==
        IF digit \in DOMAIN probabilities /\ probabilities[digit].num # 0
        THEN probabilities[digit]
        ELSE Rat(0, 1)
  IN  /\ t.kind = "num"
      /\ RatLess(RatAbsDiff(actualProbability, probability), t.val)

\* lines 132-139
IsBenford(reference, probabilities, t) ==
  \A digit \in DOMAIN reference :
    DigitConforms(digit, reference[digit], probabilities, t)

WriteAll(m, entries) ==
  [k \in (DOMAIN m) \cup (DOMAIN entries) |->
     IF k \in DOMAIN entries THEN entries[k] ELSE m[k]]

\* lines 107-146: the analysis proper, on the heap h; the result is the
\* report and the heap the call leaves
Analyse(firstDigits, totalCount, t, referenceObject, h) ==
  LET h1 == Store(h, "firstDigitCounts", CountDigits(firstDigits))
      h2 == Store(h1, "firstDigitProbabilities",
                  Probabilities(h1["firstDigitCounts"], totalCount))
      h3 == Store(h2, "firstDigitAccuracies", EmptyMap)
      target == AccuraciesObject(referenceObject)
      h4 == Store(h3, target,
                  WriteAll(h3[target],
                           Accuracies(h3["firstDigitProbabilities"],
                                      h3[referenceObject])))
  IN  [outcome |->
         [kind |-> "return",
          isFollowingBenfordLaw |->
            IsBenford(h4[referenceObject], h4["firstDigitProbabilities"], t),
          firstDigitProbabilities |-> "firstDigitProbabilities",
          firstDigitCounts |-> "firstDigitCounts",
          firstDigitAccuracies |-> target],
       heap |-> h4]

\* lines 85-147
processBenfordLaw(nums, thresholdArg, referenceArg, h) ==
  LET threshold == ThresholdParam(thresholdArg)
      referenceObject == ReferenceParam(referenceArg)
      firstDigits == FirstDigits(nums)
      bad == FirstThrow(firstDigits)
  IN  IF Len(nums) = 0
      THEN [outcome |-> Throw("Numbers array must be non-empty"), heap |-> h]
      ELSE IF ThresholdOutOfRange(threshold)
      THEN [outcome |-> Throw("Threshold must be between 0 and 1"), heap |-> h]
      ELSE IF bad # 0
      THEN [outcome |-> firstDigits[bad], heap |-> h]
      ELSE Analyse(firstDigits, Len(nums), threshold, referenceObject, h)

-----------------------------------------------------------------------------
(* The sample generator *)

\* lines 21-22
MIN_BENFORD_RANGE == 1
MAX_BENFORD_RANGE == 1000

RandomValues == 0..(RandomGrid - 1)

\* the number of decades from 1 to n: Math.log(n) / Math.log(10)
RECURSIVE Decades(_)
Decades(n) == IF n < 10 THEN 0 ELSE 1 + Decades(n \div 10)

\* the digits of 10^(i/2)
RootOfTen == <<<<1>>, <<3, 1, 6>>>>

\* lines 24-25 and 59-60: Math.exp of a point of [Math.log(min), Math.log(max)),
\* that is min * 10^(r * decades / RandomGrid)
generateBenfordLawNumber(r) ==
  LET span == Decades(MAX_BENFORD_RANGE) - Decades(MIN_BENFORD_RANGE)
      halves == (2 * span * r) \div RandomGrid
  IN  Pos(RootOfTen[(halves % 2) + 1],
          Decades(MIN_BENFORD_RANGE) + (halves \div 2))

LengthNaN == [kind |-> "nan"]
LengthNum(n, d) == [kind |-> "num", val |-> Rat(n, d)]

\* a variant without the Number.isInteger test
LengthInvalidNoIntegerTest(length) ==
  \/ length.kind # "num"
  \/ length.val.num <= 0

\* line 69: !Number.isInteger(length) || length <= 0
LengthInvalid(length) ==
  \/ length.kind # "num"
  \/ length.val.num % length.val.den # 0
  \/ length.val.num <= 0

\* lines 68-75; randoms are the values Math.random() returns, in order
generateBenfordLawNumbers(length, randoms) ==
  IF LengthInvalid(length)
  THEN Throw("Length must be a positive integer")
  ELSE Return([i \in 1..(length.val.num \div length.val.den) |->
                 generateBenfordLawNumber(randoms[i])])

-----------------------------------------------------------------------------
(* The inputs *)

Digit(d) == Pos(<<d>>, 0)

\* 5e-324, the smallest positive number
MinValue == Pos(<<5>>, -324)

\* 9.99999999999999e-301
BelowPowerOfTen == Pos([i \in 1..15 |-> 9], -301)

Elements ==
  {NaN, PosInfinity, Zero, Neg(<<1>>, 0),
   Digit(1), Digit(2), MinValue, BelowPowerOfTen}

Uniform9 == [i \in 1..9 |-> Digit(i)]

\* 50 numbers with leading digits 1..9 in the proportions 15, 9, 6, 5, 4, 3, 3, 3, 2
BenfordDigit(i) ==
  CASE i <= 15 -> 1 [] i <= 24 -> 2 [] i <= 30 -> 3 [] i <= 35 -> 4
    [] i <= 39 -> 5 [] i <= 42 -> 6 [] i <= 45 -> 7 [] i <= 48 -> 8
    [] OTHER -> 9

Benford50 == [i \in 1..50 |-> Pos(<<BenfordDigit(i), 5>>, i % 3)]

\* the same sample with the smallest positive number appended
Benford50AndMinValue == Benford50 \o <<MinValue>>

\* the same sample without its two numbers of leading digit 9
Benford48 == SubSeq(Benford50, 1, 48)

NamedArrays ==
  {Uniform9, Benford50, Benford50AndMinValue, Benford48,
   <<Digit(1), Digit(2), Digit(3)>>,
   <<Pos(<<1, 5>>, 0), Pos(<<2, 7>>, 0), Pos(<<3, 9>>, 0), Pos(<<4, 1>>, 0),
     Pos(<<5, 2>>, 0)>>,
   <<Pos(<<5>>, -1), Pos(<<7>>, -1), Pos(<<9>>, -1)>>,
   <<Pos(<<1, 2, 3, 4, 5, 6>>, 5), Pos(<<2, 3, 4, 5, 6, 7>>, 5),
     Pos(<<3, 4, 5, 6, 7, 8>>, 5)>>,
   <<Pos(<<1>>, -2), Pos(<<1>>, -1), Pos(<<1>>, 0), Pos(<<1>>, 1),
     Pos(<<1>>, 3)>>,
   <<Pos(<<5>>, -309), Pos(<<5>>, -308), Pos(<<4, 2>>, -5), Pos(<<4, 2>>, -4),
     Pos(<<9, 9>>, -1), Pos(<<9, 9>>, 0), Pos(<<7>>, 21), Pos(<<7>>, 22)>>,
   <<Neg(<<1>>, 0), Digit(2), Digit(3)>>,
   <<Digit(1), NaN, Zero>>,
   <<NegInfinity, Digit(1)>>,
   <<Digit(9), NegInfinity, NaN>>,
   <<Digit(1), Zero, PosInfinity, Digit(2)>>}

Half12 == [k \in {"1", "2"} |-> Thousandths(500)]

ZeroAndNine ==
  [k \in {"0", "9"} |-> IF k = "0" THEN Thousandths(1) ELSE Thousandths(999)]

Object(m) == [kind |-> "object", value |-> m]

ReferenceArgs == {Undefined, Object(Half12), Object(ZeroAndNine)}

ThresholdArgs ==
  {Undefined, ThresholdNaN,
   ThresholdNum(Rat(-1, 10)), ThresholdNum(Rat(0, 1)),
   ThresholdNum(Thousandths(46)),
   ThresholdNum(Rat(1, 10)), ThresholdNum(Rat(1, 2)),
   ThresholdNum(Rat(1, 1)), ThresholdNum(Rat(3, 2))}

LengthArgs ==
  {Undefined, LengthNaN, LengthNum(0, 1), LengthNum(-5, 1), LengthNum(11, 2)}
    \cup {LengthNum(n, 1) : n \in 1..MaxGenLen}

-----------------------------------------------------------------------------
(* The state machine: the caller's array, the heap, and the latest call *)

NoCall == [op |-> "none"]

\* the caller drops the objects of the previous call
Release(h) == [o \in ObjIds |-> IF o = "benfordProb" THEN h[o] ELSE EmptyMap]

Init ==
  /\ numbers = <<>>
  /\ heap = InitialHeap
  /\ call = NoCall

\* the caller is done with the outcome of the latest call and drops it
Discard ==
  /\ call # NoCall
  /\ call' = NoCall
  /\ heap' = Release(heap)
  /\ UNCHANGED numbers

\* the caller appends an element to its array
Push(x) ==
  /\ call = NoCall
  /\ Len(numbers) < MaxLen
  /\ numbers' = Append(numbers, x)
  /\ heap' = Release(heap)
  /\ call' = NoCall

\* the caller takes another array
Load(a) ==
  /\ call = NoCall
  /\ numbers' = a
  /\ heap' = Release(heap)
  /\ call' = NoCall

\* one application of the callback of numbers.map (line 105)
GetFirstDigit(i) ==
  /\ call = NoCall
  /\ call' = [op |-> "getFirstDigit", number |-> numbers[i],
              outcome |-> getFirstDigit(numbers[i])]
  /\ heap' = Release(heap)
  /\ UNCHANGED numbers

\* a call processBenfordLaw(numbers, thresholdArg, referenceArg)
ProcessBenfordLaw(thresholdArg, referenceArg) ==
  LET passed == IF referenceArg.kind = "object"
                THEN referenceArg.value ELSE EmptyMap
      before == Store(Release(heap), "callerReference", passed)
      result == processBenfordLaw(numbers, thresholdArg, referenceArg, before)
  IN  /\ call' = [op |-> "processBenfordLaw", threshold |-> thresholdArg,
                  reference |-> referenceArg, outcome |-> result.outcome,
                  after |-> call.op]
      /\ heap' = result.heap
      /\ UNCHANGED numbers

\* the caller writes to an object of the report it was returned
CallerWrites(field, key) ==
  /\ call.op = "processBenfordLaw"
  /\ call.outcome.kind = "return"
  /\ LET object == call.outcome[field]
     IN  /\ heap' = Store(heap, object, Put(heap[object], key, Rat(0, 1)))
         /\ call' = [op |-> "callerWrites", object |-> object]
  /\ UNCHANGED numbers

\* the number of times a call generateBenfordLawNumbers(length) draws from
\* Math.random (line 74)
Draws(length) ==
  IF LengthInvalid(length) THEN 0 ELSE length.val.num \div length.val.den

\* a call generateBenfordLawNumbers(length); the caller keeps the result
GenerateBenfordLawNumbers(length) ==
  /\ call = NoCall
  /\ \E randoms \in [1..Draws(length) -> RandomValues] :
       LET outcome == generateBenfordLawNumbers(length, randoms)
       IN  /\ call' = [op |-> "generateBenfordLawNumbers", length |-> length,
                       outcome |-> outcome]
           /\ numbers' = IF outcome.kind = "return" THEN outcome.value
                                                   ELSE numbers
           /\ heap' = Release(heap)

Next ==
  \/ Discard
  \/ \E x \in Elements : Push(x)
  \/ \E a \in NamedArrays : Load(a)
  \/ \E i \in 1..Len(numbers) : GetFirstDigit(i)
  \/ \E t \in ThresholdArgs, r \in ReferenceArgs : ProcessBenfordLaw(t, r)
  \/ \E f \in ReportObjIds : CallerWrites(f, "1")
  \/ \E length \in LengthArgs : GenerateBenfordLawNumbers(length)

Spec == Init /\ [][Next]_vars

-----------------------------------------------------------------------------
(* What the claims speak of *)

\* a finite positive number
Valid(x) == x.kind = "pos"

\* the leading significant digit: the first nonzero digit of the decimal
\* representation
LeadingDigit(x) == x.digs[1]

TimesTen(x) == Pos(x.digs, x.exp + 1)

AllValid == \A i \in 1..Len(numbers) : Valid(numbers[i])

Processed == call.op = "processBenfordLaw"

Returned == Processed /\ call.outcome.kind = "return"

Threw(msg) ==
  Processed /\ call.outcome.kind = "throw" /\ call.outcome.error = msg

ReportCounts == heap[call.outcome.firstDigitCounts]
ReportProbabilities == heap[call.outcome.firstDigitProbabilities]
ReportAccuracies == heap[call.outcome.firstDigitAccuracies]

\* the reference distribution and the threshold of the latest call
ReferenceOfCall ==
  IF call.reference.kind = "object" THEN call.reference.value ELSE benfordProb

ThresholdOfCall ==
  IF call.threshold.kind = "undefined"
  THEN [kind |-> "num", val |-> Rat(10, 1000)]
  ELSE call.threshold

\* strictly inside the open interval (0, 1)
InsideUnitInterval(t) ==
  /\ t.kind = "num"
  /\ 0 < t.val.num
  /\ t.val.num < t.val.den

\* the observed probability of a key, 0 when the report has no entry for it
Observed(k) ==
  IF k \in DOMAIN ReportProbabilities THEN ReportProbabilities[k] ELSE Rat(0, 1)

\* |a - b| < t, |a - b| = c for rationals
Deviation(a, b) ==
  LET d == a.num * b.den - b.num * a.den
  IN  Rat(IF d < 0 THEN 0 - d ELSE d, a.den * b.den)

Within(a, b, t) == Deviation(a, b).num * t.den < t.num * Deviation(a, b).den

RECURSIVE SumOf(_, _)
SumOf(m, keys) ==
  IF keys = {} THEN 0
  ELSE LET k == CHOOSE x \in keys : TRUE
       IN  m[k].num + SumOf(m, keys \ {k})

C2_Histogram ==
  (Returned /\ AllValid) =>
    LET n == Len(numbers)
        keys == {DigitChar[LeadingDigit(numbers[i])] : i \in 1..n}
    IN  /\ DOMAIN ReportCounts = keys
        /\ \A k \in keys :
             ReportCounts[k] =
               Rat(Cardinality({i \in 1..n :
                                  DigitChar[LeadingDigit(numbers[i])] = k}), 1)
        /\ SumOf(ReportCounts, DOMAIN ReportCounts) = n
        /\ DOMAIN ReportProbabilities = keys
        /\ \A k \in keys :
             ReportProbabilities[k] = Rat(ReportCounts[k].num, n)
        /\ SumOf(ReportProbabilities, DOMAIN ReportProbabilities) = n

\* C3 as claimed: firstDigitAccuracies has an entry for each key of the
\* reference and for no other, equal to |observed - reference|, with 0
\* for the observed probability of a key that does not occur.
C3_Original ==
  Returned =>
    /\ DOMAIN ReportAccuracies = DOMAIN ReferenceOfCall
    /\ \A k \in DOMAIN ReportAccuracies :
         ReportAccuracies[k] = Deviation(Observed(k), ReferenceOfCall[k])

\* C3 as amended: firstDigitAccuracies has an entry exactly for the keys
\* that are both in firstDigitProbabilities and in the reference, equal to
\* |observed - reference|; a key of the reference that does not occur in the
\* input has no entry.
C3_Amended ==
  Returned =>
    /\ DOMAIN ReportAccuracies =
         (DOMAIN ReportProbabilities) \cap (DOMAIN ReferenceOfCall)
    /\ \A k \in DOMAIN ReportAccuracies :
         ReportAccuracies[k] = Deviation(Observed(k), ReferenceOfCall[k])

\* processBenfordLaw([1, 2, 3]): accuracies for "1", "2", "3" and none for "9"
C3_Witness ==
  /\ Returned
  /\ numbers = <<Digit(1), Digit(2), Digit(3)>>
  /\ call.reference = Undefined
  /\ DOMAIN ReportAccuracies = {"1", "2", "3"}
  /\ "9" \in DOMAIN ReferenceOfCall

\* C4: for every finite positive x, getFirstDigit returns the leading
\* significant digit of x (1 at every power of ten, the first nonzero digit
\* below 1), and the same for 10 * x.
C4_LeadingDigit ==
  (call.op = "getFirstDigit" /\ Valid(call.number)) =>
    /\ call.outcome = Return(IntNum(LeadingDigit(call.number)))
    /\ getFirstDigit(TimesTen(call.number)) = call.outcome

\* the error of an invalid element
ElementError(x) ==
  IF x.kind \in {"nan", "posinf", "neginf"}
  THEN "Number must be finite"
  ELSE "Number must be positive and non-zero"

FirstInvalid ==
  CHOOSE i \in 1..Len(numbers) :
    /\ ~Valid(numbers[i])
    /\ \A j \in 1..(i - 1) : Valid(numbers[j])

NoReport == \A o \in ReportObjIds : heap[o] = EmptyMap

\* C5: with a non-empty array and a valid threshold, an invalid element makes
\* the call fail without a report, with the error of the first invalid
\* element: not finite before not positive.
C5_FirstInvalidElement ==
  (/\ Processed
   /\ Len(numbers) > 0
   /\ InsideUnitInterval(ThresholdOfCall)
   /\ ~AllValid) =>
    /\ Threw(ElementError(numbers[FirstInvalid]))
    /\ NoReport

\* C6: with a non-empty array, the call fails with 'Threshold must be between
\* 0 and 1' exactly when the threshold is not strictly inside (0, 1).
C6_Threshold ==
  (Processed /\ Len(numbers) > 0) =>
    (Threw("Threshold must be between 0 and 1")
       <=> ~InsideUnitInterval(ThresholdOfCall))

ElementErrors ==
  {"Number must be finite", "Number must be positive and non-zero",
   "Invalid first digit extracted"}

\* C7: the preconditions are checked in order: an empty array fails with
\* 'Numbers array must be non-empty' whatever the threshold; a non-empty array
\* with an invalid threshold fails with 'Threshold must be between 0 and 1'
\* whatever its elements; an element error needs both checks to pass.
C7_ValidationOrder ==
  Processed =>
    /\ Len(numbers) = 0 => Threw("Numbers array must be non-empty")
    /\ (Len(numbers) > 0 /\ ~InsideUnitInterval(ThresholdOfCall)) =>
         Threw("Threshold must be between 0 and 1")
    /\ (call.outcome.kind = "throw" /\ call.outcome.error \in ElementErrors) =>
         (Len(numbers) > 0 /\ InsideUnitInterval(ThresholdOfCall))

Generated == call.op = "generateBenfordLawNumbers"

PositiveInteger(length) ==
  /\ length.kind = "num"
  /\ length.val.den = 1
  /\ length.val.num >= 1

\* 1 <= x <= 1000
InBenfordRange(x) ==
  /\ x.kind = "pos"
  /\ x.exp >= 0
  /\ x.exp < 3 \/ (x.exp = 3 /\ x.digs = <<1>>)

\* C8: generateBenfordLawNumbers(n) returns exactly n elements, each finite
\* and in [1, 1000] and so accepted by the digit extractor, for a positive
\* integer n, and fails with 'Length must be a positive integer', returning
\* nothing, for every other length.
C8_Generator ==
  Generated =>
    IF PositiveInteger(call.length)
    THEN /\ call.outcome.kind = "return"
         /\ Len(call.outcome.value) = call.length.val.num
         /\ numbers = call.outcome.value
         /\ \A i \in 1..Len(numbers) :
              /\ InBenfordRange(numbers[i])
              /\ getFirstDigit(numbers[i]).kind = "return"
    ELSE call.outcome = Throw("Length must be a positive integer")

\* a generated sequence of two or more elements, one of them above 100
C8_Witness ==
  /\ Generated
  /\ call.outcome.kind = "return"
  /\ Len(numbers) >= 2
  /\ \E i \in 1..Len(numbers) : numbers[i].exp = 2

\* the heap a first call would find: the module's table untouched, the
\* reference the caller passes, no report
FreshHeap ==
  [o \in ObjIds |->
     CASE o = "benfordProb" -> benfordProb
       [] o = "callerReference" ->
            IF call.reference.kind = "object" THEN call.reference.value
                                              ELSE EmptyMap
       [] OTHER -> EmptyMap]

FirstCall ==
  processBenfordLaw(numbers, call.threshold, call.reference, FreshHeap)

\* C9: a call returns what a first call on the same arguments returns,
\* whatever was called before; it leaves the array, the reference passed and
\* the module's table as they were, and its report is made of objects of
\* its own.
C9_HistoryIndependent ==
  /\ [](/\ heap["benfordProb"] = benfordProb
        /\ Processed =>
             /\ call.outcome = FirstCall.outcome
             /\ heap = FirstCall.heap
             /\ heap["callerReference"] = FreshHeap["callerReference"]
        /\ Returned =>
             /\ call.outcome.firstDigitCounts = "firstDigitCounts"
             /\ call.outcome.firstDigitProbabilities = "firstDigitProbabilities"
             /\ call.outcome.firstDigitAccuracies = "firstDigitAccuracies")
  /\ [][call'.op = "processBenfordLaw" => numbers' = numbers]_vars

\* a call made right after the caller wrote to the report of the call before
C9_Witness ==
  /\ Returned
  /\ call.after = "callerWrites"
  /\ call.reference = Undefined
  /\ "1" \in DOMAIN ReportAccuracies
  /\ ReportAccuracies["1"] # Rat(0, 1)

\* the keys '1'..'9'
DigitKeys == {DigitChar[d] : d \in 1..9}

\* C11: getFirstDigit never returns a value that is not an integer in 1..9:
\* for every finite positive input it returns a digit in 1..9 or fails with
\* 'Invalid first digit extracted'; hence every key of firstDigitCounts,
\* firstDigitProbabilities and firstDigitAccuracies of a returned report is
\* one of '1'..'9'.
C11_DigitRange ==
  /\ (call.op = "getFirstDigit" /\ Valid(call.number)) =>
       \/ \E d \in 1..9 : call.outcome = Return(IntNum(d))
       \/ call.outcome = Throw("Invalid first digit extracted")
  /\ Returned =>
       /\ DOMAIN ReportCounts \subseteq DigitKeys
       /\ DOMAIN ReportProbabilities \subseteq DigitKeys
       /\ DOMAIN ReportAccuracies \subseteq DigitKeys

\* a threshold in (0, 0.046], 0.046 being the smallest standard probability
AtMostSmallestProbability(t) ==
  /\ t.kind = "num"
  /\ 0 < t.val.num
  /\ t.val.num * 1000 <= 46 * t.val.den

\* the digits that occur as the leading digit of an element of the input
LeadingDigitsOfInput ==
  {LeadingDigit(numbers[i]) : i \in {j \in 1..Len(numbers) : Valid(numbers[j])}}

\* C12: with the standard reference and a threshold in (0, 0.046] (the
\* default 0.01 included), a verdict of true means that all nine digits
\* occur in the input: firstDigitCounts, firstDigitProbabilities and
\* firstDigitAccuracies have exactly the nine entries '1'..'9', every
\* accuracy is strictly below the threshold and the input has at least 9
\* elements; an input in which some digit never leads is not conformant.
C12_AllNineDigits ==
  (/\ Returned
   /\ call.reference = Undefined
   /\ AtMostSmallestProbability(ThresholdOfCall)
   /\ call.outcome.isFollowingBenfordLaw) =>
    /\ LeadingDigitsOfInput = 1..9
    /\ DOMAIN ReportCounts = DigitKeys
    /\ DOMAIN ReportProbabilities = DigitKeys
    /\ DOMAIN ReportAccuracies = DigitKeys
    /\ \A k \in DigitKeys :
         RatLess(ReportAccuracies[k], ThresholdOfCall.val)
    /\ Len(numbers) >= 9

====
